---- MODULE Spec2Model ----
(***************************************************************************)
(* Windman: userland version manager.  Model of the version lifecycle      *)
(* engine (src/src/install.rs, util.rs, prune.rs, cli.rs): the versions    *)
(* root as a small file system, the `current` symbolic link, the per       *)
(* process temporary link of the activation switch, and the commands as    *)
(* sequences of file-system steps.                                         *)
(***************************************************************************)
EXTENDS Integers, Sequences, FiniteSets, TLC

\* ------------------------------------------------------------------ bounds
MaxTime == 2   \* the clock takes the values 0..MaxTime
MaxVer  == 2   \* version identifiers 1.0.1 .. 1.0.MaxVer
MaxKeep == 2   \* keep-counts 0..MaxKeep
MaxFaults == 1 \* file-system operations that fail in one behaviour

VARIABLES
  now,      \* the wall clock (timestamp_version, modification times)
  dirs,     \* directories under the versions root: name -> [mtime]
  current,  \* content of the symbolic link <root>/current, or NoLink
  tmp,      \* content of <root>/.tmp-<pid>, per process, or NoLink
  shim,     \* the forwarder script: its mode and the link path it holds
  pc,       \* per process: the step the running command is at
  loc,      \* per process: the running command's local variables
  obs,      \* what the concurrent reader of `current` saw last
  faults,   \* file-system failures so far
  hist,     \* versions of the latest successive successful installs (<= 2)
  before,   \* the target `current` had before its present one, or NoName
  res,      \* the version resolver on one archive: inputs and result
  run,      \* the latest run of the shim: what it resolved and launched
  desk      \* the desktop entry file and the icons directory: present or not

vars == <<now, dirs, current, tmp, shim, pc, loc, obs, faults, hist, before, res, run,
          desk>>

\* ------------------------------------------------------------------- names
\* A directory entry name under the versions root: <<kind, n>>.
VerName(i) == <<"ver", i>>        \* "1.0.<i>"
TsName(t)  == <<"ts", t>>         \* the 14-digit timestamp of clock value t
StgName(t) == <<"stg", t>>        \* ".staging-<timestamp of t>"
TmpName(p) == <<"tmp", p>>         \* ".tmp-<pid>"
CurName    == <<"current", 0>>    \* "current"
NoName     == <<"none", 0>>       \* no name / Option::None
NoLink     == NoName              \* the link does not exist

\* Process identifiers; Solo is the one invocation of the sequential
\* specifications.
Procs == {1, 2}
Solo == {1}

VerNames == {VerName(i) : i \in 1..MaxVer}
StgNames == {StgName(t) : t \in 0..MaxTime}
DirNames == VerNames \cup StgNames

\* An archive: the version token of its file name (0: none) and the version
\* field of its embedded descriptor (0: none).
Archives == {[f |-> i, d |-> 0] : i \in 1..MaxVer} \cup {[f |-> 0, d |-> 1]}

\* Files of a tree, by their path below its top.
Exe == <<"exe", 0>>          \* Windsurf/bin/windsurf, executable
AltExe == <<"alt", 0>>       \* windsurf, executable
Product == <<"product", 0>>  \* the descriptor product.json
Lib(i) == <<"lib", i>>       \* a file that only the build 1.0.<i> ships

\* install.rs 106-113: the entries Archive::unpack writes, in the order of
\* the archive.  A build named for its version has the usual layout; the
\* build that carries only a descriptor has the flat one.
ArchiveEntries(a) ==
  IF a.f # 0 THEN <<Lib(a.f), Exe>> ELSE <<Product, AltExe>>

Payload(a) == {ArchiveEntries(a)[i] : i \in 1..Len(ArchiveEntries(a))}

\* The tree of an installed version 1.0.<i>; a staging directory left
\* before extraction is empty.
FilesOf(n) == IF n[1] = "stg" THEN {} ELSE Payload([f |-> n[2], d |-> 0])

\* The roots with the directories S, any modification times.
Roots(S) ==
  {[n \in S |-> [mtime |-> m[n], files |-> FilesOf(n)]] :
     m \in [S -> 0..MaxTime]}

\* ------------------------------------------------------------ file system
\* The entry <root>/<n> is a real directory (no link is followed).
IsDir(n) == n \in DOMAIN dirs

\* fs::read_link(current): Ok(content) or Err (NoLink).
ReadLink == current

\* The directory the path <root>/<n> resolves to, following at most k
\* symbolic links (`current`, `.tmp-<pid>`); NoName when there is none.
RECURSIVE Resolve(_, _)
Resolve(n, k) ==
  IF n \in DOMAIN dirs THEN n
  ELSE IF k = 0 THEN NoName
  ELSE IF n = CurName THEN Resolve(current, k - 1)
  ELSE IF n[1] = "tmp" THEN Resolve(tmp[n[2]], k - 1)
  ELSE NoName

\* Path::is_dir / Path::exists follow symbolic links.
PathIsDir(n) == Resolve(n, 3) # NoName

\* link.exists() for <root>/current: the link exists and resolves.
LinkExists == PathIsDir(CurName)

RemoveDir(d, n) == [m \in (DOMAIN d) \ {n} |-> d[m]]

PutDir(d, n, r) == [m \in (DOMAIN d) \cup {n} |-> IF m = n THEN r ELSE d[m]]

\* The empty versions root.
NoDirs == [m \in {} |-> [mtime |-> 0, files |-> {}]]

\* --------------------------------------------------------------- locals
NoArch == [f |-> 0, d |-> 0]

\* No shim file.
NoShim == [mode |-> "absent", link |-> NoName]

\* No desktop entry file and no icons directory.
NoDesk == [file |-> FALSE, icons |-> FALSE]

\* No error message.
NoMsg == [version |-> NoName, available |-> {}]

Idle == [op |-> "none", arch |-> NoArch, keep |-> 0, prev |-> NoName,
         stg |-> NoName, final |-> NoName, old |-> NoLink, target |-> NoName,
         ret |-> "none", preserve |-> {}, queue |-> <<>>, kind |-> "none",
         snap |-> NoDirs, deleted |-> {}, failed |-> {}, status |-> "none",
         arg |-> NoName, h |-> << >>, msg |-> NoMsg, sh |-> NoShim,
         last |-> FALSE, purge |-> FALSE, dk |-> NoDesk, local |-> NoName,
         latest |-> NoName, dry |-> FALSE]

\* The resolver is not under study.
NoRes == [step |-> "off"]

\* The shim has not been run.
NoRun == [code |-> "none", cur |-> NoLink, tree |-> {}, root |-> NoName,
          at |-> {}, exe |-> NoName, diag |-> FALSE]

\* A faulty variant: the script holds the directory the link targets when
\* the script is written.
ShimScript_TargetAtGeneration(link) == [mode |-> "exec", link |-> current]

\* util.rs 28-60: the script holds the path of the link it is given
\* (CURRENT_LINK="<link>") and is made executable.
ShimScript(link) == [mode |-> "exec", link |-> link]

NoObs == [link |-> NoLink, inSwitch |-> FALSE, old |-> NoLink, new |-> NoName,
          oldValid |-> FALSE]

Init ==
  /\ now = 0
  /\ dirs = NoDirs
  /\ current = NoLink
  /\ tmp = [p \in Procs |-> NoLink]
  /\ shim = NoShim
  /\ pc = [p \in Procs |-> "idle"]
  /\ loc = [p \in Procs |-> Idle]
  /\ obs = NoObs
  /\ faults = 0
  /\ hist = << >>
  /\ before = NoName
  /\ res = NoRes
  /\ run = NoRun
  /\ desk = NoDesk

Goto(p, l) == pc' = [pc EXCEPT ![p] = l]

\* A command ends: its result stays readable in loc[p] until Return.
End(p, st) ==
  /\ pc' = [pc EXCEPT ![p] = "done"]
  /\ loc' = [loc EXCEPT ![p].status = st]

\* The environment makes a file-system operation fail.
Fault == faults < MaxFaults /\ faults' = faults + 1
NoFault == UNCHANGED faults

\* ------------------------------------------------------------------ clock
Tick ==
  /\ now < MaxTime
  /\ now' = now + 1
  /\ UNCHANGED <<dirs, current, tmp, shim, pc, loc, obs, faults, hist, before, res, desk, run>>

\* ------------------------------------------------- atomic_symlink_switch
SwitchPcs == {"sw_tmp", "sw_symlink", "sw_remove", "sw_rename"}

\* A faulty variant: one temporary name for every process.
TmpOf_Shared(p) == 1

\* util.rs 15: the temporary link of a process is named for its process
\* identifier, `.tmp-<pid>`.
TmpOf(p) == p

\* util.rs 16: tmp.exists() follows the link.
TmpExists(p) == PathIsDir(TmpName(TmpOf(p)))

\* util.rs 16-18: if tmp.exists() { let _ = fs::remove_file(&tmp); }
\* A dangling leftover does not "exist" and is not removed.
SwTmp(p) ==
  /\ pc[p] = "sw_tmp"
  /\ \/ /\ TmpExists(p)
        /\ tmp' = [tmp EXCEPT ![TmpOf(p)] = NoLink]
        /\ NoFault
     \/ /\ TmpExists(p)
        /\ Fault
        /\ UNCHANGED tmp
     \/ /\ ~TmpExists(p)
        /\ NoFault
        /\ UNCHANGED tmp
  /\ Goto(p, "sw_symlink")
  /\ UNCHANGED <<now, dirs, current, shim, loc, obs, hist, before, res, desk, run>>

\* util.rs 19: symlink(target, &tmp)?  fails when tmp is still there (EEXIST)
\* or when the file system refuses.
SwSymlink(p) ==
  /\ pc[p] = "sw_symlink"
  /\ \/ /\ tmp[TmpOf(p)] = NoLink
        /\ tmp' = [tmp EXCEPT ![TmpOf(p)] = loc[p].target]
        /\ Goto(p, "sw_remove")
        /\ NoFault
        /\ UNCHANGED loc
     \/ /\ tmp[TmpOf(p)] = NoLink
        /\ Fault
        /\ End(p, "err_switch")
        /\ UNCHANGED tmp
     \/ /\ tmp[TmpOf(p)] # NoLink
        /\ NoFault
        /\ End(p, "err_switch")
        /\ UNCHANGED tmp
  /\ UNCHANGED <<now, dirs, current, shim, obs, hist, before, res, desk, run>>

\* util.rs 20: if link.exists()
RemovesOldLinkFirst == LinkExists

\* util.rs 20-22: if link.exists() { fs::remove_file(link).ok(); }
SwRemove(p) ==
  /\ pc[p] = "sw_remove"
  /\ \/ /\ RemovesOldLinkFirst
        /\ current' = NoLink
        /\ NoFault
     \/ /\ RemovesOldLinkFirst
        /\ Fault
        /\ UNCHANGED current
     \/ /\ ~RemovesOldLinkFirst
        /\ NoFault
        /\ UNCHANGED current
  /\ Goto(p, "sw_rename")
  /\ UNCHANGED <<now, dirs, tmp, shim, loc, obs, hist, before, res, desk, run>>

\* util.rs 23-24: fs::rename(&tmp, link)?; Ok(())
SwRename(p) ==
  /\ pc[p] = "sw_rename"
  /\ \/ /\ tmp[TmpOf(p)] # NoLink
        /\ current' = tmp[TmpOf(p)]
        /\ tmp' = [tmp EXCEPT ![TmpOf(p)] = NoLink]
        /\ before' = IF tmp[TmpOf(p)] = loc[p].old THEN before ELSE loc[p].old
        /\ NoFault
        /\ IF loc[p].ret = "done"
             THEN End(p, "ok")
             ELSE Goto(p, loc[p].ret) /\ UNCHANGED loc
     \/ /\ Fault
        /\ End(p, "err_switch")
        /\ UNCHANGED <<current, tmp, before>>
  /\ UNCHANGED <<now, dirs, shim, obs, hist, res, desk, run>>

\* ------------------------------------------------------ switch_to_version
\* Arguments of `use`: version identifiers; and, for the switch beside a
\* reader, any entry name of the root, `current` included.
UseArgs == VerNames
UseArgsAny == DirNames \cup {CurName}

\* A faulty variant: the message always reads "Available: <none>".
AvailableNames_None == {}

\* cli.rs 199-213: the names of the entries other than `current` whose path
\* is_dir(), links followed; they are sorted and joined at cli.rs 214-224.
AvailableNames ==
  DOMAIN dirs \cup {TmpName(q) : q \in {r \in Procs : PathIsDir(TmpName(r))}}

\* cli.rs 215-224: "version '<v>' not found under <root>.\nAvailable: <names>"
NotFoundMessage(v) == [version |-> v, available |-> AvailableNames]

\* A faulty variant: the link is rewritten even when it has the target.
AlreadyUsing_Never(v) == FALSE

\* cli.rs 228-233: read_link(current) succeeds and equals the target.
AlreadyUsing(v) == ReadLink # NoLink /\ ReadLink = v

\* cli.rs 192-238 (Commands::Use, cli.rs 309-318)
SwitchToVersion(p, v) ==
  /\ pc[p] = "idle"
  /\ IF ~PathIsDir(v)
       THEN /\ pc' = [pc EXCEPT ![p] = "done"]
            /\ loc' = [loc EXCEPT ![p] = [Idle EXCEPT !.op = "use", !.arg = v,
                                            !.old = current, !.sh = shim, !.snap = dirs,
                                            !.status = "err_notfound",
                                            !.msg = NotFoundMessage(v)]]
       ELSE IF AlreadyUsing(v)
         THEN /\ pc' = [pc EXCEPT ![p] = "done"]
              /\ loc' = [loc EXCEPT ![p] = [Idle EXCEPT !.op = "use", !.arg = v,
                                              !.old = current, !.sh = shim, !.snap = dirs,
                                              !.status = "ok"]]
         ELSE /\ pc' = [pc EXCEPT ![p] = "sw_tmp"]
              /\ loc' = [loc EXCEPT ![p] = [Idle EXCEPT !.op = "use", !.arg = v,
                                              !.target = v, !.ret = "done",
                                              !.old = current, !.sh = shim, !.snap = dirs]]
  /\ hist' = << >>
  /\ UNCHANGED <<now, dirs, current, tmp, shim, obs, faults, before, res, desk, run>>

\* The process exits; the next command starts from fresh locals.
Return(p) ==
  /\ pc[p] = "done"
  /\ pc' = [pc EXCEPT ![p] = "idle"]
  /\ loc' = [loc EXCEPT ![p] = Idle]
  /\ UNCHANGED <<now, dirs, current, tmp, shim, obs, faults, hist, before, res, desk, run>>

\* --------------------------------------------------------------- reader
\* Another process (the shim, `readlink`) reads <root>/current.
ReaderRead ==
  /\ \E p \in Solo :
       obs' = [link |-> current,
               inSwitch |-> pc[p] \in SwitchPcs,
               old |-> IF pc[p] \in SwitchPcs THEN loc[p].old ELSE NoLink,
               new |-> IF pc[p] \in SwitchPcs THEN loc[p].target ELSE NoName,
               oldValid |-> pc[p] \in SwitchPcs /\ IsDir(loc[p].old)]
  /\ UNCHANGED <<now, dirs, current, tmp, shim, pc, loc, faults, hist, before, res, desk, run>>

\* ------------------------------------------------------- install_from_tar
\* A faulty variant: the directory is always named by the clock.
ResolveVersion_Timestamp(a, t) == TsName(t)

\* install.rs 27-37: file-name token, else descriptor field, else
\* timestamp_version() read at that moment.
ResolveVersion(a, t) ==
  IF a.f # 0 THEN VerName(a.f)
  ELSE IF a.d # 0 THEN VerName(a.d)
  ELSE TsName(t)

\* cli.rs 266-281 (Install) and 371-375 (Update): remember the link, then
\* call install_from_tar.  Update's steps 1-5 (remote lookup, download) are
\* the download collaborator's: they end with an archive on disk.
StartInstall(p, a, keep) ==
  /\ pc[p] = "idle"
  /\ pc' = [pc EXCEPT ![p] = "inst_stage"]
  /\ loc' = [loc EXCEPT ![p] = [Idle EXCEPT !.op = "install", !.arch = a,
                                  !.keep = keep, !.prev = ReadLink,
                                  !.old = current, !.snap = dirs,
                                  !.h = hist]]
  /\ hist' = << >>
  /\ UNCHANGED <<now, dirs, current, tmp, shim, obs, faults, before, res, desk, run>>

\* install.rs 12-22: the staging path is named by the clock's second; a
\* directory already there is removed (best effort) and created again.
InstStage(p) ==
  /\ pc[p] = "inst_stage"
  /\ LET stg == StgName(now) IN
       \/ /\ dirs' = PutDir(dirs, stg, [mtime |-> now, files |-> {}])
          /\ NoFault
          /\ pc' = [pc EXCEPT ![p] = "inst_extract"]
          /\ loc' = [loc EXCEPT ![p].stg = stg]
       \/ /\ IsDir(stg)
          /\ Fault
          /\ UNCHANGED dirs
          /\ pc' = [pc EXCEPT ![p] = "inst_extract"]
          /\ loc' = [loc EXCEPT ![p].stg = stg]
       \/ /\ ~IsDir(stg)
          /\ Fault
          /\ End(p, "err_stage")
          /\ UNCHANGED dirs
  /\ UNCHANGED <<now, current, tmp, shim, obs, hist, before, res, desk, run>>

\* The trees a failed extraction can leave: what was there and the first
\* entries, not all, of the archive.
PartlyExtracted(old, a) ==
  {old \cup {ArchiveEntries(a)[i] : i \in 1..k} : k \in 0..(Len(ArchiveEntries(a)) - 1)}

\* What the directory <root>/<n> holds; nothing when it is not there.
Tree(n) == IF IsDir(n) THEN dirs[n].files ELSE {}

\* install.rs 25, 106-113: unpack into the staging directory, on top of
\* what the directory holds (Archive::unpack creates a destination that is
\* not there).
InstExtract(p) ==
  /\ pc[p] = "inst_extract"
  /\ \/ /\ dirs' = PutDir(dirs, loc[p].stg,
                          [mtime |-> now,
                           files |-> Tree(loc[p].stg)
                                       \cup Payload(loc[p].arch)])
        /\ NoFault
        /\ Goto(p, "inst_resolve")
        /\ UNCHANGED loc
     \/ /\ Fault
        /\ End(p, "err_extract")
        /\ \E fs \in PartlyExtracted(Tree(loc[p].stg), loc[p].arch) :
             dirs' = PutDir(dirs, loc[p].stg, [mtime |-> now, files |-> fs])
  /\ UNCHANGED <<now, current, tmp, shim, obs, hist, before, res, desk, run>>

\* install.rs 27-39
InstResolve(p) ==
  /\ pc[p] = "inst_resolve"
  /\ pc' = [pc EXCEPT ![p] = "inst_rmfinal"]
  /\ loc' = [loc EXCEPT ![p].final = ResolveVersion(loc[p].arch, now)]
  /\ UNCHANGED <<now, dirs, current, tmp, shim, obs, faults, hist, before, res, desk, run>>

\* install.rs 41-45: an existing directory of that name is removed first.
InstRmFinal(p) ==
  /\ pc[p] = "inst_rmfinal"
  /\ \/ /\ IsDir(loc[p].final)
        /\ dirs' = RemoveDir(dirs, loc[p].final)
        /\ NoFault
        /\ Goto(p, "inst_rename")
        /\ UNCHANGED loc
     \/ /\ IsDir(loc[p].final)
        /\ Fault
        /\ End(p, "err_rmfinal")
        /\ UNCHANGED dirs
     \/ /\ ~IsDir(loc[p].final)
        /\ NoFault
        /\ Goto(p, "inst_rename")
        /\ UNCHANGED <<dirs, loc>>
  /\ UNCHANGED <<now, current, tmp, shim, obs, hist, before, res, desk, run>>

\* rename(2) of a directory: the source must be there, and a directory at
\* the destination must be empty (it is then replaced).
CanRename(from, to) == IsDir(from) /\ Tree(to) = {}

\* install.rs 47-52: promote the staging directory, then switch.  The
\* process that promoted last is marked.
InstRename(p) ==
  /\ pc[p] = "inst_rename"
  /\ \/ /\ CanRename(loc[p].stg, loc[p].final)
        /\ dirs' = PutDir(RemoveDir(dirs, loc[p].stg), loc[p].final,
                          dirs[loc[p].stg])
        /\ NoFault
        /\ pc' = [pc EXCEPT ![p] = "sw_tmp"]
        /\ loc' = [q \in Procs |->
                     IF q = p
                       THEN [loc[p] EXCEPT !.target = loc[p].final,
                                           !.ret = "inst_shim",
                                           !.old = current,
                                           !.last = TRUE]
                       ELSE [loc[q] EXCEPT !.last = FALSE]]
     \/ /\ ~CanRename(loc[p].stg, loc[p].final)
        /\ NoFault
        /\ End(p, "err_rename")
        /\ UNCHANGED dirs
     \/ /\ Fault
        /\ End(p, "err_rename")
        /\ UNCHANGED dirs
  /\ UNCHANGED <<now, current, tmp, shim, obs, hist, before, res, desk, run>>

\* The latest two of a sequence of installed versions.
LastTwo(h) == IF Len(h) > 2 THEN SubSeq(h, Len(h) - 1, Len(h)) ELSE h

\* install.rs 54-58, util.rs 27-62: write the shim and return Ok(version);
\* a failure after File::create leaves a script that is not yet executable.
InstShim(p) ==
  /\ pc[p] = "inst_shim"
  /\ \/ /\ shim' = ShimScript(CurName)
        /\ NoFault
        /\ Goto(p, "cli_desktop")
        /\ hist' = LastTwo(Append(loc[p].h, loc[p].final))
        /\ UNCHANGED loc
     \/ /\ shim' \in {shim, [mode |-> "partial", link |-> NoName]}
        /\ Fault
        /\ End(p, "err_shim")
        /\ UNCHANGED hist
  /\ UNCHANGED <<now, dirs, current, tmp, obs, before, res, desk, run>>

\* A faulty variant: the link target is left out of the PreserveSet.
BuildPreserve_PrevOnly(cur, prev) == IF prev # NoName THEN {prev} ELSE {}

\* cli.rs 295-301 / 390-396: the PreserveSet of the install and update flows.
BuildPreserve(cur, prev) ==
  (IF cur # NoLink THEN {cur} ELSE {}) \cup (IF prev # NoName THEN {prev} ELSE {})

\* config.rs 75: desktop integration is on unless the configuration says
\* otherwise.
DesktopIntegration == TRUE

\* The --no-desktop and --desktop flags of the commands under study: none.
DesktopFlags == {[no_desktop |-> FALSE, desktop |-> FALSE]}

\* cli.rs 284-288 / 379-383.
WantDesktop(f) ==
  IF f.no_desktop THEN FALSE ELSE f.desktop \/ DesktopIntegration

\* desktop.rs 5-25: the icons directory is created when missing, then the
\* entry file is written.
EnsureDesktopFiles(d) == [file |-> TRUE, icons |-> TRUE]

\* cli.rs 284-302 / 379-401: optional desktop entry, then the prune pass.
\* A failure inside ensure_desktop_files may come after the icons directory
\* was created.
CliDesktop(p) ==
  /\ pc[p] = "cli_desktop"
  /\ \E f \in DesktopFlags :
       \/ /\ pc' = [pc EXCEPT ![p] = "pres_list"]
          /\ loc' = [loc EXCEPT ![p].preserve = BuildPreserve(ReadLink, loc[p].prev),
                                ![p].snap = dirs]
          /\ desk' = IF WantDesktop(f) THEN EnsureDesktopFiles(desk) ELSE desk
          /\ NoFault
       \/ /\ WantDesktop(f)
          /\ Fault
          /\ desk' \in {desk, [desk EXCEPT !.icons = TRUE]}
          /\ End(p, "err_desktop")
  /\ UNCHANGED <<now, dirs, current, tmp, shim, obs, hist, before, res, run>>

\* ------------------------------------------------------ prune_old_versions
Max(S) == CHOOSE x \in S : \A y \in S : y <= x

\* prune.rs 25: the sort is stable and newest first; entries with equal
\* modification times keep their read_dir order, which is arbitrary.
RECURSIVE NewestFirst(_, _)
NewestFirst(d, S) ==
  IF S = {} THEN {<< >>}
  ELSE LET top == Max({d[n].mtime : n \in S}) IN
       UNION {{<<n>> \o s : s \in NewestFirst(d, S \ {n})} :
                n \in {m \in S : d[m].mtime = top}}

\* prune.rs 13-24: every real directory of the root except the name
\* `current` (file_type() follows no link).
Entries == DOMAIN dirs

\* A faulty variant: the keep-count 0 is not treated apart.
KeepZero_Never(keep) == FALSE

\* prune.rs 6-8
KeepZero(keep) == keep = 0

\* Faulty variants: one entry too many, one too few, is skipped.
SkipKeep_OneMore(q, keep) == SubSeq(q, keep + 2, Len(q))
SkipKeep_OneLess(q, keep) == SubSeq(q, keep, Len(q))

\* prune.rs 30: entries.into_iter().skip(keep)
SkipKeep(q, keep) == SubSeq(q, keep + 1, Len(q))

\* Faulty variants: no entry, every entry, is taken for the link's target.
IsCurrentTarget_Never(path) == FALSE
IsCurrentTarget_Always(path) == TRUE

\* prune.rs 32-36: the target of `current` is passed over.
IsCurrentTarget(path) == ReadLink # NoLink /\ ReadLink = path

StartPrune(p, keep) ==
  /\ pc[p] = "idle"
  /\ pc' = [pc EXCEPT ![p] = "prune_list"]
  /\ loc' = [loc EXCEPT ![p] = [Idle EXCEPT !.op = "prune", !.keep = keep,
                                  !.old = current, !.snap = dirs,
                                  !.preserve = BuildPreserve(ReadLink, NoName)]]
  /\ UNCHANGED <<now, dirs, current, tmp, shim, obs, faults, hist, before, res, desk, run>>

\* prune.rs 5-28
PruneList(p) ==
  /\ pc[p] = "prune_list"
  /\ IF KeepZero(loc[p].keep) \/ Cardinality(Entries) <= loc[p].keep
       THEN End(p, "ok")
       ELSE \E q \in NewestFirst(dirs, Entries) :
              /\ pc' = [pc EXCEPT ![p] = "prune_loop"]
              /\ loc' = [loc EXCEPT ![p].queue = SkipKeep(q, loc[p].keep)]
  /\ UNCHANGED <<now, dirs, current, tmp, shim, obs, faults, hist, before, res, desk, run>>

\* prune.rs 30-39: one iteration; a failed removal ends the pass with Err.
PruneLoop(p) ==
  /\ pc[p] = "prune_loop"
  /\ LET path == Head(loc[p].queue) IN
       \/ /\ loc[p].queue = << >>
          /\ End(p, "ok")
          /\ NoFault
          /\ UNCHANGED dirs
       \/ /\ loc[p].queue # << >>
          /\ IsCurrentTarget(path)
          /\ loc' = [loc EXCEPT ![p].queue = Tail(@)]
          /\ NoFault
          /\ UNCHANGED <<pc, dirs>>
       \/ /\ loc[p].queue # << >>
          /\ ~IsCurrentTarget(path)
          /\ IsDir(path)
          /\ dirs' = RemoveDir(dirs, path)
          /\ loc' = [loc EXCEPT ![p].queue = Tail(@),
                                ![p].deleted = @ \cup {path}]
          /\ NoFault
          /\ UNCHANGED pc
       \/ /\ loc[p].queue # << >>
          /\ ~IsCurrentTarget(path)
          /\ Fault
          /\ pc' = [pc EXCEPT ![p] = "done"]
          /\ loc' = [loc EXCEPT ![p].failed = @ \cup {path},
                                ![p].status = "err_prune"]
          /\ UNCHANGED dirs
  /\ UNCHANGED <<now, current, tmp, shim, obs, hist, before, res, desk, run>>

\* ------------------------------------- prune_old_versions_with_preserve
\* Called at cli.rs 302 and 397; its body is not among the sources, so it
\* follows section 4.5 of the specification.
StartPruneWithPreserve(p, keep, preserve) ==
  /\ pc[p] = "idle"
  /\ pc' = [pc EXCEPT ![p] = "pres_list"]
  /\ loc' = [loc EXCEPT ![p] = [Idle EXCEPT !.op = "prunep", !.keep = keep,
                                  !.old = current, !.snap = dirs,
                                  !.preserve = preserve]]
  /\ UNCHANGED <<now, dirs, current, tmp, shim, obs, faults, hist, before, res, desk, run>>

PreserveList(p) ==
  /\ pc[p] = "pres_list"
  /\ IF loc[p].keep = 0
       THEN End(p, "ok")
       ELSE \E q \in NewestFirst(dirs, DOMAIN dirs) :
              /\ pc' = [pc EXCEPT ![p] = "pres_loop"]
              /\ loc' = [loc EXCEPT ![p].queue =
                               SubSeq(q, loc[p].keep + 1, Len(q))]
  /\ UNCHANGED <<now, dirs, current, tmp, shim, obs, faults, hist, before, res, desk, run>>

\* A faulty variant: a pass with a failed removal returns Err, as
\* prune_old_versions does.
PreserveResult_ErrOnFailure(failed) ==
  IF failed = {} THEN "ok" ELSE "err_prune"

\* Sections 4.5 and 7: failed removals are reported, the pass returns Ok.
\* The callers (cli.rs 302, 397-401) pass the result on with `?`.
PreserveResult(failed) == "ok"

PreserveLoop(p) ==
  /\ pc[p] = "pres_loop"
  /\ LET path == Head(loc[p].queue) IN
       \/ /\ loc[p].queue = << >>
          /\ End(p, PreserveResult(loc[p].failed))
          /\ NoFault
          /\ UNCHANGED dirs
       \/ /\ loc[p].queue # << >>
          /\ path \in loc[p].preserve
          /\ loc' = [loc EXCEPT ![p].queue = Tail(@)]
          /\ NoFault
          /\ UNCHANGED <<pc, dirs>>
       \/ /\ loc[p].queue # << >>
          /\ path \notin loc[p].preserve
          /\ IsDir(path)
          /\ dirs' = RemoveDir(dirs, path)
          /\ loc' = [loc EXCEPT ![p].queue = Tail(@),
                                ![p].deleted = @ \cup {path}]
          /\ NoFault
          /\ UNCHANGED pc
       \/ /\ loc[p].queue # << >>
          /\ path \notin loc[p].preserve
          /\ Fault
          /\ loc' = [loc EXCEPT ![p].queue = Tail(@),
                                ![p].failed = @ \cup {path}]
          /\ UNCHANGED <<pc, dirs>>
  /\ UNCHANGED <<now, current, tmp, shim, obs, hist, before, res, desk, run>>

\* ---------------------------------------------------------------- rollback
\* install.rs 115-130: entries other than `current` whose path is_dir();
\* is_dir() follows links, so a leftover .tmp-<pid> link to a directory counts.
ListVersionDirs ==
  DOMAIN dirs \cup {TmpName(q) : q \in {r \in Procs : PathIsDir(TmpName(r))}}

\* fs::metadata(p).modified(): of the directory the path resolves to.
MtimeOf(n) == dirs[Resolve(n, 3)].mtime

\* A faulty variant: the least recently modified candidate is taken.
RollbackChoices_Oldest(cur) ==
  LET c == ListVersionDirs \ {cur} IN
  {n \in c : \A m \in c : MtimeOf(n) <= MtimeOf(m)}

\* install.rs 72-75: drop the link's target, sort by modification time
\* (stable), take the last.
RollbackChoices(cur) ==
  LET c == ListVersionDirs \ {cur} IN
  {n \in c : \A m \in c : MtimeOf(m) <= MtimeOf(n)}

\* A faulty variant: one directory is enough.
TooFew_One(n) == n < 1

\* install.rs 65: if dirs.len() < 2 { bail!(..) }
TooFew(n) == n < 2

\* install.rs 61-82; pop().unwrap() panics on an empty candidate list.
Rollback(p) ==
  /\ pc[p] = "idle"
  /\ IF TooFew(Cardinality(ListVersionDirs))
       THEN /\ pc' = [pc EXCEPT ![p] = "done"]
            /\ loc' = [loc EXCEPT ![p] = [Idle EXCEPT !.op = "rollback",
                                            !.old = current, !.sh = shim,
                                            !.status = "err_notenough"]]
       ELSE IF ReadLink = NoLink
         THEN /\ pc' = [pc EXCEPT ![p] = "done"]
              /\ loc' = [loc EXCEPT ![p] = [Idle EXCEPT !.op = "rollback",
                                              !.old = current, !.sh = shim,
                                              !.status = "err_readlink"]]
         ELSE IF RollbackChoices(ReadLink) = {}
           THEN /\ pc' = [pc EXCEPT ![p] = "done"]
                /\ loc' = [loc EXCEPT ![p] = [Idle EXCEPT !.op = "rollback",
                                                !.old = current, !.sh = shim,
                                                !.status = "panic"]]
         ELSE \E prev \in RollbackChoices(ReadLink) :
                /\ pc' = [pc EXCEPT ![p] = "sw_tmp"]
                /\ loc' = [loc EXCEPT ![p] = [Idle EXCEPT !.op = "rollback",
                                                !.target = prev, !.ret = "done",
                                                !.old = current, !.sh = shim,
                                                !.prev = before, !.snap = dirs]]
  /\ hist' = << >>
  /\ UNCHANGED <<now, dirs, current, tmp, shim, obs, faults, before, res, desk, run>>

\* -------------------------------------------------------------------- list
\* cli.rs 152-190 (Commands::List, cli.rs 424-443): the names of the entries
\* other than `current` whose path is_dir(), links followed.
CollectInstalled ==
  DOMAIN dirs \cup {TmpName(q) : q \in {r \in Procs : PathIsDir(TmpName(r))}}

\* ---------------------------------------------------------------- the shim
\* util.rs 34: ROOT="$(readlink -f "$CURRENT_LINK")".  readlink -f follows
\* every link of the path and prints the result when all but the last
\* component exist; it fails on a loop of links.
RECURSIVE ReadlinkF(_, _)
ReadlinkF(n, k) ==
  IF n \in DOMAIN dirs THEN n
  ELSE IF k = 0 THEN NoName
  ELSE IF n = CurName /\ current # NoLink THEN ReadlinkF(current, k - 1)
  ELSE IF n[1] = "tmp" /\ tmp[n[2]] # NoLink THEN ReadlinkF(tmp[n[2]], k - 1)
  ELSE n

\* util.rs 35-45: the usual executable, else the flat one, else status 127.
\* A faulty variant: the flat executable is not tried.
Launch_NoFallback(root) ==
  IF root = NoName THEN [code |-> "1", exe |-> NoName, diag |-> FALSE]
  ELSE IF IsDir(root) /\ Exe \in dirs[root].files
    THEN [code |-> "exec", exe |-> Exe, diag |-> FALSE]
  ELSE [code |-> "127", exe |-> NoName, diag |-> TRUE]

\* util.rs 31-45: under set -e a failed readlink ends the script with its
\* status; else the usual executable, else the flat one, else the
\* diagnostic on the error stream and status 127.
Launch(root) ==
  IF root = NoName THEN [code |-> "1", exe |-> NoName, diag |-> FALSE]
  ELSE IF IsDir(root) /\ Exe \in dirs[root].files
    THEN [code |-> "exec", exe |-> Exe, diag |-> FALSE]
  ELSE IF IsDir(root) /\ AltExe \in dirs[root].files
    THEN [code |-> "exec", exe |-> AltExe, diag |-> FALSE]
  ELSE [code |-> "127", exe |-> NoName, diag |-> TRUE]

\* The user runs the shim (util.rs 31-46, the script's text).  The run is
\* recorded with the link's target of that moment and, when the target is a
\* directory, its tree, and with the tree at the resolved root.
RunShim ==
  /\ shim.mode = "exec"
  /\ LET root == ReadlinkF(shim.link, 3) IN
       run' = [code |-> Launch(root).code,
               cur |-> IF IsDir(current) THEN current ELSE NoLink,
               tree |-> IF IsDir(current) THEN dirs[current].files ELSE {},
               root |-> root,
               at |-> IF root # NoName THEN Tree(root) ELSE {},
               exe |-> Launch(root).exe,
               diag |-> Launch(root).diag]
  /\ UNCHANGED <<now, dirs, current, tmp, shim, pc, loc, obs, faults, hist,
                 before, res, desk>>

\* ------------------------------------------------------------------ update
\* semver::Version::parse on a name: "1.0.<i>" parses, a 14-digit timestamp
\* or a missing value does not (0).
SemVer(n) == IF n[1] = "ver" THEN n[2] ELSE 0

\* A faulty variant: only a strictly greater local version is up to date.
SemverGE_Strict(a, b) == SemVer(a) > SemVer(b)

\* cli.rs 337: local_ver >= latest_ver, on versions that parsed.
SemverGE(a, b) == SemVer(a) >= SemVer(b)

\* A faulty variant: the update does not look at --dry-run.
DryRunStops_Never(dry) == FALSE

\* cli.rs 348-353: with --dry-run the update prints its findings and
\* returns before the download.
DryRunStops(dry) == dry

\* version.rs 10-47 on the installation: no version (NoName) when `current`
\* does not resolve or its target holds no descriptor; otherwise what the
\* descriptor says: a version, a value that is no semantic version, or none.
LocalVersions ==
  IF LinkExists /\ Product \in dirs[Resolve(CurName, 3)].files
    THEN VerNames \cup {TsName(0), NoName}
    ELSE {NoName}

\* remote.rs: the latest release the remote end reports: a version, a value
\* that is no semantic version, or no answer (NoName).
LatestResults == VerNames \cup {TsName(0), NoName}

\* cli.rs 320-375: the update command up to its call of install_from_tar.
\* Steps 1-5 read the installation and the network and write the download
\* cache only; the install that follows is install_from_tar on the archive
\* of the latest release, named for its version, with the retention count
\* of the configuration.
StartUpdate(p, latest, dry, keep) ==
  /\ pc[p] = "idle"
  /\ \E local \in LocalVersions :
       LET l == [Idle EXCEPT !.op = "update", !.local = local, !.latest = latest,
                             !.dry = dry, !.keep = keep, !.old = current,
                             !.snap = dirs, !.sh = shim, !.dk = desk, !.h = hist]
           stop(st) == /\ pc' = [pc EXCEPT ![p] = "done"]
                       /\ loc' = [loc EXCEPT ![p] = [l EXCEPT !.status = st]]
                       /\ UNCHANGED hist
       IN
       \/ /\ LinkExists /\ Product \in dirs[Resolve(CurName, 3)].files
          /\ Fault
          /\ stop("err_detect")
       \/ /\ NoFault
          /\ IF latest = NoName THEN stop("err_remote")
             ELSE IF SemVer(latest) = 0 THEN stop("err_remote_version")
             ELSE IF local # NoName /\ SemVer(local) # 0 /\ SemverGE(local, latest)
               THEN stop("uptodate")
             ELSE IF DryRunStops(dry) THEN stop("dry")
             ELSE /\ pc' = [pc EXCEPT ![p] = "inst_stage"]
                  /\ loc' = [loc EXCEPT ![p] =
                               [l EXCEPT !.arch = [f |-> SemVer(latest), d |-> 0],
                                         !.prev = ReadLink]]
                  /\ hist' = << >>
       \/ /\ latest # NoName /\ SemVer(latest) # 0 /\ ~DryRunStops(dry)
          /\ ~(local # NoName /\ SemVer(local) # 0 /\ SemverGE(local, latest))
          /\ Fault
          /\ stop("err_download")
  /\ UNCHANGED <<now, dirs, current, tmp, shim, obs, before, res, run, desk>>

\* cli.rs 269-274: install --dry-run prints what it would do and returns.
InstallDryRun(p, a, keep) ==
  /\ pc[p] = "idle"
  /\ pc' = [pc EXCEPT ![p] = "done"]
  /\ loc' = [loc EXCEPT ![p] = [Idle EXCEPT !.op = "install", !.arch = a,
                                  !.keep = keep, !.dry = TRUE, !.old = current,
                                  !.snap = dirs, !.sh = shim, !.dk = desk,
                                  !.h = hist, !.status = "dry"]]
  /\ UNCHANGED <<now, dirs, current, tmp, shim, obs, faults, hist, before, res, run,
                 desk>>

\* cli.rs 309-314: use --dry-run prints the target path and returns; the
\* target is not looked at.
UseDryRun(p, v) ==
  /\ pc[p] = "idle"
  /\ pc' = [pc EXCEPT ![p] = "done"]
  /\ loc' = [loc EXCEPT ![p] = [Idle EXCEPT !.op = "use", !.arg = v,
                                  !.dry = TRUE, !.old = current, !.snap = dirs,
                                  !.sh = shim, !.dk = desk, !.h = hist,
                                  !.status = "dry"]]
  /\ UNCHANGED <<now, dirs, current, tmp, shim, obs, faults, hist, before, res, run,
                 desk>>

\* ------------------------------------------------------------ uninstall_all
\* cli.rs 450-454: the uninstall command, with or without --purge.
StartUninstall(p, purge) ==
  /\ pc[p] = "idle"
  /\ pc' = [pc EXCEPT ![p] = "un_link"]
  /\ loc' = [loc EXCEPT ![p] = [Idle EXCEPT !.op = "uninstall", !.purge = purge,
                                            !.dk = desk, !.snap = dirs,
                                            !.old = current, !.sh = shim]]
  /\ UNCHANGED <<now, dirs, current, tmp, shim, obs, faults, hist, before, res, run,
                 desk>>

\* install.rs 86: `let _ = fs::remove_file(current)`, the outcome is dropped.
UnLink(p) ==
  /\ pc[p] = "un_link"
  /\ \/ current' = NoLink /\ NoFault
     \/ Fault /\ UNCHANGED current
  /\ Goto(p, "un_shim")
  /\ UNCHANGED <<now, dirs, tmp, shim, loc, obs, hist, before, res, run, desk>>

\* install.rs 87: `let _ = fs::remove_file(bin_shim)`, the outcome is dropped.
UnShim(p) ==
  /\ pc[p] = "un_shim"
  /\ \/ shim' = NoShim /\ NoFault
     \/ Fault /\ UNCHANGED shim
  /\ Goto(p, "un_root")
  /\ UNCHANGED <<now, dirs, current, tmp, loc, obs, hist, before, res, run, desk>>

\* install.rs 90-92: remove_dir_all on the versions root takes every entry
\* with it, the links included; a failure leaves some of the entries and is
\* returned.
UnRoot(p) ==
  /\ pc[p] = "un_root"
  /\ \/ /\ dirs' = NoDirs
        /\ current' = NoLink
        /\ tmp' = [q \in Procs |-> NoLink]
        /\ Goto(p, "un_purge")
        /\ UNCHANGED loc
        /\ NoFault
     \/ /\ Fault
        /\ \E S \in SUBSET (DOMAIN dirs) :
             dirs' = [m \in S |-> dirs[m]]
        /\ current' \in {current, NoLink}
        /\ UNCHANGED tmp
        /\ End(p, "err_remove")
  /\ UNCHANGED <<now, shim, obs, hist, before, res, run, desk>>

\* install.rs 94-101: with purge the desktop entry and the icons directory
\* are removed, each outcome dropped; then Ok.
UnPurge(p) ==
  /\ pc[p] = "un_purge"
  /\ IF loc[p].purge
       THEN \/ desk' = NoDesk /\ NoFault
            \/ /\ Fault
               /\ desk' \in {[file |-> desk.file, icons |-> FALSE],
                             [file |-> FALSE, icons |-> desk.icons]}
       ELSE UNCHANGED desk /\ NoFault
  /\ End(p, "ok")
  /\ UNCHANGED <<now, dirs, current, tmp, shim, obs, hist, before, res, run>>

\* ---------------------------------------------------------- specifications
\* The lifecycle: commands one after the other, step by step.
Next ==
  \/ Tick
  \/ \E p \in Solo :
       \/ \E v \in UseArgs : SwitchToVersion(p, v)
       \/ Rollback(p)
       \/ \E a \in Archives, k \in 0..MaxKeep : StartInstall(p, a, k)
       \/ InstStage(p)
       \/ InstExtract(p)
       \/ InstResolve(p)
       \/ InstRmFinal(p)
       \/ InstRename(p)
       \/ InstShim(p)
       \/ CliDesktop(p)
       \/ SwTmp(p)
       \/ SwSymlink(p)
       \/ SwRemove(p)
       \/ SwRename(p)
       \/ \E k \in 0..MaxKeep : StartPrune(p, k)
       \/ PruneList(p)
       \/ PruneLoop(p)
       \/ PreserveList(p)
       \/ PreserveLoop(p)
       \/ Return(p)

Spec == Init /\ [][Next]_vars

\* The activation switch beside a concurrent reader: version directories
\* are installed, `current` points at one of them or is absent, and the
\* commands that only switch (use, rollback) run while another process reads
\* the link.
InitSwitch ==
  /\ now = MaxTime
  /\ \E S \in SUBSET (VerNames \cup {StgName(0)}) :
       dirs \in Roots(S)
  /\ current \in DOMAIN dirs \cup {NoLink}
  /\ tmp = [p \in Procs |-> NoLink]
  /\ shim = IF dirs = NoDirs THEN NoShim ELSE ShimScript(CurName)
  /\ pc = [p \in Procs |-> "idle"]
  /\ loc = [p \in Procs |-> Idle]
  /\ obs = NoObs
  /\ faults = 0
  /\ hist = << >>
  /\ before = NoName
  /\ res = NoRes
  /\ run = NoRun
  /\ desk = NoDesk

NextSwitch ==
  \/ ReaderRead
  \/ \E p \in Solo :
       \/ \E v \in UseArgsAny : SwitchToVersion(p, v)
       \/ Rollback(p)
       \/ SwTmp(p)
       \/ SwSymlink(p)
       \/ SwRemove(p)
       \/ SwRename(p)
       \/ Return(p)

SpecSwitch == InitSwitch /\ [][NextSwitch]_vars

\* The retention engine on its inputs: any set of directories 1.0.0 ..
\* 1.0.MaxVer with any modification times, `current` absent, valid or
\* dangling, then one pass after the other.
PruneNames == {VerName(i) : i \in 0..MaxVer}

InitPrune ==
  /\ now = MaxTime
  /\ \E S \in SUBSET PruneNames : dirs \in Roots(S)
  /\ current \in PruneNames \cup {NoLink}
  /\ tmp = [p \in Procs |-> NoLink]
  /\ shim = ShimScript(CurName)
  /\ pc = [p \in Procs |-> "idle"]
  /\ loc = [p \in Procs |-> Idle]
  /\ obs = NoObs
  /\ faults = 0
  /\ hist = << >>
  /\ before = NoName
  /\ res = NoRes
  /\ run = NoRun
  /\ desk = NoDesk

NextPrune ==
  \E p \in Solo :
    \/ \E k \in 0..MaxKeep : StartPrune(p, k)
    \/ PruneList(p)
    \/ PruneLoop(p)
    \/ \E k \in 0..MaxKeep, ps \in SUBSET PruneNames :
         StartPruneWithPreserve(p, k, ps)
    \/ PreserveList(p)
    \/ PreserveLoop(p)
    \/ Return(p)

SpecPrune == InitPrune /\ [][NextPrune]_vars

\* Rollback and use on their inputs: any set of directories 1.0.0 ..
\* 1.0.MaxVer with any modification times, `current` absent, pointing at
\* one of them or at one that is no longer there, then one command after the
\* other.
InitRollback ==
  /\ now = MaxTime
  /\ \E S \in SUBSET PruneNames : dirs \in Roots(S)
  /\ current \in PruneNames \cup {NoLink}
  /\ tmp = [p \in Procs |-> NoLink]
  /\ shim = IF dirs = NoDirs THEN NoShim ELSE ShimScript(CurName)
  /\ pc = [p \in Procs |-> "idle"]
  /\ loc = [p \in Procs |-> Idle]
  /\ obs = NoObs
  /\ faults = 0
  /\ hist = << >>
  /\ before = NoName
  /\ res = NoRes
  /\ run = NoRun
  /\ desk = NoDesk

NextRollback ==
  \E p \in Solo :
    \/ \E v \in PruneNames : SwitchToVersion(p, v)
    \/ Rollback(p)
    \/ SwTmp(p)
    \/ SwSymlink(p)
    \/ SwRemove(p)
    \/ SwRename(p)
    \/ Return(p)

SpecRollback == InitRollback /\ [][NextRollback]_vars

\* The shim beside the commands: from the empty root, installs (without
\* retention), uses and rollbacks one after the other within one second,
\* and runs of the shim between their steps.
NextShim ==
  \/ RunShim
  \/ \E p \in Solo :
       \/ \E v \in UseArgs : SwitchToVersion(p, v)
       \/ Rollback(p)
       \/ \E a \in Archives : StartInstall(p, a, 0)
       \/ InstStage(p)
       \/ InstExtract(p)
       \/ InstResolve(p)
       \/ InstRmFinal(p)
       \/ InstRename(p)
       \/ InstShim(p)
       \/ CliDesktop(p)
       \/ PreserveList(p)
       \/ SwTmp(p)
       \/ SwSymlink(p)
       \/ SwRemove(p)
       \/ SwRename(p)
       \/ Return(p)

SpecShim == Init /\ [][NextShim]_vars

\* Two invocations at once: one install (without retention) by each of two
\* processes on the empty root, their steps interleaved, the clock running;
\* the file system does not fail.
InitRace ==
  /\ now = 0
  /\ dirs = NoDirs
  /\ current = NoLink
  /\ tmp = [p \in Procs |-> NoLink]
  /\ shim = NoShim
  /\ pc = [p \in Procs |-> "idle"]
  /\ loc = [p \in Procs |-> Idle]
  /\ obs = NoObs
  /\ faults = MaxFaults
  /\ hist = << >>
  /\ before = NoName
  /\ res = NoRes
  /\ run = NoRun
  /\ desk = NoDesk

NextRace ==
  \/ Tick
  \/ \E p \in Procs :
       \/ \E a \in Archives : StartInstall(p, a, 0)
       \/ InstStage(p)
       \/ InstExtract(p)
       \/ InstResolve(p)
       \/ InstRmFinal(p)
       \/ InstRename(p)
       \/ InstShim(p)
       \/ CliDesktop(p)
       \/ PreserveList(p)
       \/ SwTmp(p)
       \/ SwSymlink(p)
       \/ SwRemove(p)
       \/ SwRename(p)

SpecRace == InitRace /\ [][NextRace]_vars

\* The process running a command is stopped (a signal, a power cut) between
\* two of its file-system steps: nothing more is done, nothing is undone.
Interrupt(p) ==
  /\ pc[p] \notin {"idle", "done"}
  /\ End(p, "killed")
  /\ UNCHANGED <<now, dirs, current, tmp, shim, obs, faults, hist, before, res, desk, run>>

\* Interrupted commands: from the empty root, installs (without retention),
\* uses and rollbacks one after the other within one second, each of which
\* may be stopped after any of its steps; the file system does not fail.
InitInterrupt ==
  /\ now = 0
  /\ dirs = NoDirs
  /\ current = NoLink
  /\ tmp = [p \in Procs |-> NoLink]
  /\ shim = NoShim
  /\ pc = [p \in Procs |-> "idle"]
  /\ loc = [p \in Procs |-> Idle]
  /\ obs = NoObs
  /\ faults = MaxFaults
  /\ hist = << >>
  /\ before = NoName
  /\ res = NoRes
  /\ run = NoRun
  /\ desk = NoDesk

NextInterrupt ==
  \E p \in Solo :
    \/ Interrupt(p)
    \/ \E v \in UseArgs : SwitchToVersion(p, v)
    \/ Rollback(p)
    \/ \E a \in Archives : StartInstall(p, a, 0)
    \/ InstStage(p)
    \/ InstExtract(p)
    \/ InstResolve(p)
    \/ InstRmFinal(p)
    \/ InstRename(p)
    \/ InstShim(p)
    \/ CliDesktop(p)
    \/ PreserveList(p)
    \/ SwTmp(p)
    \/ SwSymlink(p)
    \/ SwRemove(p)
    \/ SwRename(p)
    \/ Return(p)

SpecInterrupt == InitInterrupt /\ [][NextInterrupt]_vars

\* Installs over what earlier installs left: from the empty root, installs
\* (without retention) one after the other within one second; an install may
\* be stopped after any of its steps and a file-system operation may fail.
NextReinstall ==
  \E p \in Solo :
    \/ Interrupt(p)
    \/ \E a \in Archives : StartInstall(p, a, 0)
    \/ InstStage(p)
    \/ InstExtract(p)
    \/ InstResolve(p)
    \/ InstRmFinal(p)
    \/ InstRename(p)
    \/ InstShim(p)
    \/ CliDesktop(p)
    \/ PreserveList(p)
    \/ SwTmp(p)
    \/ SwSymlink(p)
    \/ SwRemove(p)
    \/ SwRename(p)
    \/ Return(p)

SpecReinstall == Init /\ [][NextReinstall]_vars

\* Uninstalling: any installation (version directories, a staging directory,
\* `current` absent or at one of them, the shim and the desktop files there
\* or not), then uninstall commands with and without --purge.
DeskStates == {NoDesk, [file |-> FALSE, icons |-> TRUE],
               [file |-> TRUE, icons |-> TRUE]}

InitUninstall ==
  /\ now = MaxTime
  /\ \E S \in SUBSET (VerNames \cup {StgName(0)}) :
       dirs \in Roots(S)
  /\ current \in DOMAIN dirs \cup {NoLink}
  /\ tmp = [p \in Procs |-> NoLink]
  /\ shim \in {NoShim, ShimScript(CurName)}
  /\ pc = [p \in Procs |-> "idle"]
  /\ loc = [p \in Procs |-> Idle]
  /\ obs = NoObs
  /\ faults = 0
  /\ hist = << >>
  /\ before = NoName
  /\ res = NoRes
  /\ run = NoRun
  /\ desk \in DeskStates

NextUninstall ==
  \E p \in Solo :
    \/ \E purge \in BOOLEAN : StartUninstall(p, purge)
    \/ UnLink(p)
    \/ UnShim(p)
    \/ UnRoot(p)
    \/ UnPurge(p)
    \/ Return(p)

SpecUninstall == InitUninstall /\ [][NextUninstall]_vars

\* Updating: version directories of either layout, `current` absent or at
\* one of them, then update commands against any answer of the remote end,
\* and the dry runs of install, use and update.
Layouts(n) == {FilesOf(n), Payload([f |-> 0, d |-> 1])}

InitUpdate ==
  /\ now = MaxTime
  /\ \E S \in SUBSET VerNames :
       \E m \in [S -> 0..MaxTime] :
         \E f \in [S -> UNION {Layouts(n) : n \in S}] :
           /\ \A n \in S : f[n] \in Layouts(n)
           /\ dirs = [n \in S |-> [mtime |-> m[n], files |-> f[n]]]
  /\ current \in DOMAIN dirs \cup {NoLink}
  /\ tmp = [p \in Procs |-> NoLink]
  /\ shim = IF dirs = NoDirs THEN NoShim ELSE ShimScript(CurName)
  /\ pc = [p \in Procs |-> "idle"]
  /\ loc = [p \in Procs |-> Idle]
  /\ obs = NoObs
  /\ faults = 0
  /\ hist = << >>
  /\ before = NoName
  /\ res = NoRes
  /\ run = NoRun
  /\ desk \in {NoDesk, EnsureDesktopFiles(NoDesk)}

NextUpdate ==
  \E p \in Solo :
    \/ \E latest \in LatestResults, dry \in BOOLEAN, k \in 0..MaxKeep :
         StartUpdate(p, latest, dry, k)
    \/ \E a \in Archives, k \in 0..MaxKeep : InstallDryRun(p, a, k)
    \/ \E v \in UseArgsAny : UseDryRun(p, v)
    \/ InstStage(p)
    \/ InstExtract(p)
    \/ InstResolve(p)
    \/ InstRmFinal(p)
    \/ InstRename(p)
    \/ InstShim(p)
    \/ CliDesktop(p)
    \/ PreserveList(p)
    \/ PreserveLoop(p)
    \/ SwTmp(p)
    \/ SwSymlink(p)
    \/ SwRemove(p)
    \/ SwRename(p)
    \/ Return(p)

SpecUpdate == InitUpdate /\ [][NextUpdate]_vars

\* A prune pass beside an activation: version directories, `current` absent
\* or at one of them; each of two processes runs one command, a prune pass,
\* a use or a rollback, their steps interleaved; the file system does not
\* fail.
InitPruneSwitch ==
  /\ now = MaxTime
  /\ \E S \in SUBSET PruneNames : dirs \in Roots(S)
  /\ current \in DOMAIN dirs \cup {NoLink}
  /\ tmp = [p \in Procs |-> NoLink]
  /\ shim = IF dirs = NoDirs THEN NoShim ELSE ShimScript(CurName)
  /\ pc = [p \in Procs |-> "idle"]
  /\ loc = [p \in Procs |-> Idle]
  /\ obs = NoObs
  /\ faults = MaxFaults
  /\ hist = << >>
  /\ before = NoName
  /\ res = NoRes
  /\ run = NoRun
  /\ desk = NoDesk

NextPruneSwitch ==
  \E p \in Procs :
    \/ \E k \in 0..MaxKeep : StartPrune(p, k)
    \/ PruneList(p)
    \/ PruneLoop(p)
    \/ \E v \in UseArgs : SwitchToVersion(p, v)
    \/ Rollback(p)
    \/ SwTmp(p)
    \/ SwSymlink(p)
    \/ SwRemove(p)
    \/ SwRename(p)

SpecPruneSwitch == InitPruneSwitch /\ [][NextPruneSwitch]_vars

\* Two switches at once: version directories, `current` absent or at one of
\* them, no temporary link left behind; each of two processes runs one use
\* command, their steps interleaved; the file system does not fail.
InitSwitchRace ==
  /\ now = MaxTime
  /\ \E S \in SUBSET PruneNames : dirs \in Roots(S)
  /\ current \in DOMAIN dirs \cup {NoLink}
  /\ tmp = [p \in Procs |-> NoLink]
  /\ shim = IF dirs = NoDirs THEN NoShim ELSE ShimScript(CurName)
  /\ pc = [p \in Procs |-> "idle"]
  /\ loc = [p \in Procs |-> Idle]
  /\ obs = NoObs
  /\ faults = MaxFaults
  /\ hist = << >>
  /\ before = NoName
  /\ res = NoRes
  /\ run = NoRun
  /\ desk = NoDesk

NextSwitchRace ==
  \E p \in Procs :
    \/ \E v \in PruneNames : SwitchToVersion(p, v)
    \/ SwTmp(p)
    \/ SwSymlink(p)
    \/ SwRemove(p)
    \/ SwRename(p)

SpecSwitchRace == InitSwitchRace /\ [][NextSwitchRace]_vars

\* --------------------------------------------------------- version resolver
\* Text is a sequence of characters.  File names are drawn over a digit, the
\* dot and a letter; descriptor fields over these, a second digit and the
\* letters of "current".
None == <<"none">>
AsciiDigits == {"0", "1", "2", "3", "4", "5", "6", "7", "8", "9"}
NameChars == {"1", ".", "a"}

RECURSIVE Texts(_, _)
Texts(chars, n) ==
  IF n = 0 THEN {<< >>}
  ELSE LET shorter == Texts(chars, n - 1) IN
       shorter \cup {Append(t, c) : t \in {u \in shorter : Len(u) = n - 1},
                                    c \in chars}

\* The regular expression's \d, on the characters drawn.
IsDigit(c) == c \in AsciiDigits

\* The position after the longest run of digits that starts at i.
RECURSIVE RunEnd(_, _)
RunEnd(s, i) ==
  IF i <= Len(s) /\ IsDigit(s[i]) THEN RunEnd(s, i + 1) ELSE i

IsDotAt(s, i) == i <= Len(s) /\ s[i] = "."

\* A match of \d+\.\d+\.\d+ that starts at i: the position after it, or 0.
\* Each \d+ is greedy; giving digits back never helps, a dot must follow.
MatchAt(s, i) ==
  LET e1 == RunEnd(s, i)
      e2 == RunEnd(s, e1 + 1)
      e3 == RunEnd(s, e2 + 1)
  IN IF e1 > i /\ IsDotAt(s, e1) /\ e2 > e1 + 1 /\ IsDotAt(s, e2) /\ e3 > e2 + 1
       THEN e3 ELSE 0

\* Regex::captures: the leftmost match, or None.
FirstMatch(s) ==
  LET starts == {i \in 1..Len(s) : MatchAt(s, i) # 0} IN
  IF starts = {} THEN None
  ELSE LET i == CHOOSE j \in starts : \A k \in starts : j <= k
       IN SubSeq(s, i, MatchAt(s, i) - 1)

\* install.rs 132-137, on the file name of the archive path.
ExtractVersionFromFilename(name) == FirstMatch(name)

\* install.rs 145-147: WalkDir ... .max_depth(4)
WalkMaxDepth == 4

\* install.rs 169-175 with field "windsurfVersion" (install.rs 164-167): the
\* text between the quotes that follow the field name, whatever it is.
ParseWindsurfVersionFromProduct(desc) == desc.wv

\* install.rs 139-162: the first product.json met at depth 1..4, read and
\* parsed; Err (None after .ok(), install.rs 32) without file or field.
DetectVersionFromProductJson(desc) ==
  IF desc.depth = 0 \/ desc.depth > WalkMaxDepth THEN None
  ELSE ParseWindsurfVersionFromProduct(desc)

\* Decimal digits of n, most significant first.
DigitOf(n) == <<"0", "1", "2", "3", "4", "5", "6", "7", "8", "9">>[n + 1]
RECURSIVE Dec(_)
Dec(n) == IF n < 10 THEN <<DigitOf(n)>> ELSE Dec(n \div 10) \o <<DigitOf(n % 10)>>
RECURSIVE Pad(_, _)
Pad(t, w) == IF Len(t) >= w THEN t ELSE Pad(<<"0">> \o t, w)

\* util.rs 5-8: Utc::now() formatted with %Y%m%d%H%M%S.
TimestampVersion(c) ==
  Pad(Dec(c.y), 4) \o Pad(Dec(c.mo), 2) \o Pad(Dec(c.d), 2)
    \o Pad(Dec(c.h), 2) \o Pad(Dec(c.mi), 2) \o Pad(Dec(c.s), 2)

\* A faulty variant: the descriptor is preferred to the file name.
ChooseVersion_DescriptorFirst(fromName, fromDesc, ts) ==
  IF fromDesc # None THEN fromDesc
  ELSE IF fromName # None THEN fromName
  ELSE ts

\* install.rs 35-37: ver_from_filename.or(ver_from_product)
\*                     .unwrap_or_else(timestamp_version)
ChooseVersion(fromName, fromDesc, ts) ==
  IF fromName # None THEN fromName
  ELSE IF fromDesc # None THEN fromDesc
  ELSE ts

\* The inputs of one resolution.
MaxName == 6
Names == Texts(NameChars, MaxName) \ {<< >>}
FieldVals == {<< >>, <<"a">>, <<"2", ".", "2", ".", "2">>,
              <<"a", "2", ".", "2", ".", "2">>, <<".", ".">>,
              <<"c", "u", "r", "r", "e", "n", "t">>}
Descs == [depth : 0..(WalkMaxDepth + 1), wv : FieldVals \cup {None},
          v : {None, <<"2", ".", "1", ".", "2">>}]
Clocks == {[y |-> 1970, mo |-> 1, d |-> 1, h |-> 0, mi |-> 0, s |-> 0],
           [y |-> 2025, mo |-> 9, d |-> 27, h |-> 15, mi |-> 33, s |-> 22],
           [y |-> 9999, mo |-> 12, d |-> 31, h |-> 23, mi |-> 59, s |-> 59]}

InitResolve ==
  /\ now = 0
  /\ dirs = NoDirs
  /\ current = NoLink
  /\ tmp = [p \in Procs |-> NoLink]
  /\ shim = NoShim
  /\ pc = [p \in Procs |-> "idle"]
  /\ loc = [p \in Procs |-> Idle]
  /\ obs = NoObs
  /\ faults = 0
  /\ hist = << >>
  /\ before = NoName
  /\ res \in [step : {"in"}, name : Names, desc : Descs, clock : Clocks,
              out : {None}]
  /\ run = NoRun
  /\ desk = NoDesk

\* install.rs 27-37
ResolveStep ==
  /\ res.step = "in"
  /\ res' = [res EXCEPT
       !.step = "done",
       !.out = ChooseVersion(ExtractVersionFromFilename(res.name),
                             DetectVersionFromProductJson(res.desc),
                             TimestampVersion(res.clock))]
  /\ UNCHANGED <<now, dirs, current, tmp, shim, pc, loc, obs, faults, hist,
                 before, run, desk>>

NextResolve == ResolveStep

SpecResolve == InitResolve /\ [][NextResolve]_vars

\* ---------------------------------------------------- detect_local_version
\* version.rs 68: walkdir::WalkDir::new(root).max_depth(4)
DetectMaxDepth == 4

\* The state of <root>/current as the detector finds it.
LinkStates == {"absent", "dangling", "loop", "dir"}

\* A descriptor under the link's target: its depth below the target (0: there
\* is none), what reading it gives, whether its text is a JSON value, and its
\* two version fields (None: absent; "number": present, not a string).
TextVals == {<<"a">>, <<"2", ".", "2", ".", "2">>}
LocalDescs ==
  [depth : 0..(DetectMaxDepth + 1),
   read : {"text", "denied", "notutf8"},
   json : BOOLEAN,
   wv : TextVals \cup {None, <<"number">>},
   v : {None, <<"2", ".", "1", ".", "2">>}]

\* version.rs 12: Path::exists follows the link.
CurrentExists(link) == link = "dir"

\* version.rs 52-77: the conventional places (all within four levels), then
\* the walk of depth <= 4.
FindProductJson(desc) == desc.depth \in 1..DetectMaxDepth

\* version.rs 27-34: the field is taken when it is a JSON string.
JsonString(f) == f # None /\ f # <<"number">>

\* A faulty variant: the pattern takes any quoted value.
RegexFishVersion_AnyValue(desc) ==
  IF desc.wv # None /\ desc.wv # <<"number">> THEN desc.wv
  ELSE IF desc.v # None /\ desc.v # <<"number">> THEN desc.v
  ELSE None

\* version.rs 79-84: "(windsurfVersion|version)" : "(\d+\.\d+\.\d+)", the
\* leftmost in the text; the fields stand in the order windsurfVersion,
\* version, and the quoted value is the whole token.
RegexFishVersion(desc) ==
  LET fits(f) == JsonString(f) /\ FirstMatch(f) = f IN
  IF fits(desc.wv) THEN desc.wv
  ELSE IF fits(desc.v) THEN desc.v
  ELSE None

\* version.rs 22-23: fs::read_to_string(&product_path)...? fails on a file
\* that cannot be opened or does not hold UTF-8.
ReadDescriptor(desc) == desc.read

\* version.rs 42-43: return Ok(None)
NoVersion == [kind |-> "ok_none", v |-> None]

\* version.rs 10-47
DetectLocalVersion(link, desc) ==
  IF ~CurrentExists(link) THEN [kind |-> "ok_none", v |-> None]
  ELSE IF ~FindProductJson(desc) THEN [kind |-> "ok_none", v |-> None]
  ELSE IF ReadDescriptor(desc) # "text" THEN [kind |-> "err", v |-> None]
  ELSE IF desc.json /\ JsonString(desc.wv) THEN [kind |-> "ok_some", v |-> desc.wv]
  ELSE IF desc.json /\ JsonString(desc.v) THEN [kind |-> "ok_some", v |-> desc.v]
  ELSE IF RegexFishVersion(desc) # None
    THEN [kind |-> "ok_some", v |-> RegexFishVersion(desc)]
  ELSE NoVersion

InitDetect ==
  /\ now = 0
  /\ dirs = NoDirs
  /\ current = NoLink
  /\ tmp = [p \in Procs |-> NoLink]
  /\ shim = NoShim
  /\ pc = [p \in Procs |-> "idle"]
  /\ loc = [p \in Procs |-> Idle]
  /\ obs = NoObs
  /\ faults = 0
  /\ hist = << >>
  /\ before = NoName
  /\ res \in [step : {"detect"}, link : LinkStates, desc : LocalDescs,
              out : {NoVersion}]
  /\ run = NoRun
  /\ desk = NoDesk

\* cli.rs 326, 406: version::detect_local_version(&eff)?
DetectStep ==
  /\ res.step = "detect"
  /\ res' = [res EXCEPT !.step = "detected",
                        !.out = DetectLocalVersion(res.link, res.desc)]
  /\ UNCHANGED <<now, dirs, current, tmp, shim, pc, loc, obs, faults, hist,
                 before, run, desk>>

NextDetect == DetectStep

SpecDetect == InitDetect /\ [][NextDetect]_vars

\* ------------------------------------------------------------------ claims
PruneOps == {"prune", "prunep"}

\* A pass (of either engine, called directly or by the install flow) has
\* returned Ok and every removal it tried succeeded.
PassOk(p) ==
  /\ pc[p] = "done"
  /\ loc[p].op \in PruneOps \cup {"install"}
  /\ loc[p].status = "ok"
  /\ loc[p].failed = {}

\* C1: a reader of `current` during atomic_symlink_switch, when the link held
\* a valid target beforehand, sees the old or the new target, never a
\* missing link.
C1_ReaderSeesOldOrNew ==
  (obs.inSwitch /\ obs.oldValid) => obs.link \in {obs.old, obs.new}

\* C2: when atomic_symlink_switch fails, `current` still exists and points
\* at the target it had before the call.
C2_FailedSwitchLeavesLink ==
  \A p \in Procs :
    (pc[p] = "done" /\ loc[p].status = "err_switch" /\ loc[p].old # NoLink)
      => current = loc[p].old

\* C3: in every state, intermediate states of the commands included,
\* `current` does not exist or resolves to an existing directory.
C3_CurrentNeverInvalid == current = NoLink \/ PathIsDir(CurName)

\* C4: a pass never deletes a member of the PreserveSet it was given (for
\* prune_old_versions: the target of `current`), whatever the keep-count.
C4_PreservedNeverDeleted ==
  \A p \in Procs : loc[p].deleted \cap loc[p].preserve = {}

\* C4 witness: a finished pass deleted a directory and passed over a
\* preserved one that was older, so ranked behind it.
C4_Witness ==
  \E p \in Procs :
    /\ PassOk(p) /\ loc[p].op \in PruneOps
    /\ \E n \in loc[p].preserve \cap DOMAIN dirs, m \in loc[p].deleted :
         loc[p].snap[n].mtime < loc[p].snap[m].mtime

\* The directories of the pass's candidates that stay after it.
Remaining(p) == DOMAIN dirs \cap DOMAIN loc[p].snap
PreservedCandidates(p) == loc[p].preserve \cap DOMAIN loc[p].snap
MaxOf(a, b) == IF a >= b THEN a ELSE b

\* C5 as stated: after a pass with keep-count N >= 1 whose deletions all
\* succeed, at most max(N, |PreserveSet among the candidates|) remain.
C5_AtMostMaxKeepPreserved ==
  \A p \in Procs :
    (PassOk(p) /\ loc[p].op \in PruneOps /\ loc[p].keep >= 1)
      => Cardinality(Remaining(p))
           <= MaxOf(loc[p].keep, Cardinality(PreservedCandidates(p)))

\* C5 amended: at most N + |PreserveSet among the candidates| remain.
C5_AtMostKeepPlusPreserved ==
  \A p \in Procs :
    (PassOk(p) /\ loc[p].op \in PruneOps /\ loc[p].keep >= 1)
      => Cardinality(Remaining(p))
           <= loc[p].keep + Cardinality(PreservedCandidates(p))

\* C5 witness: a pass that deleted something and left exactly
\* N + |preserved candidates| directories, more than max of the two.
C5_Witness ==
  \E p \in Procs :
    /\ PassOk(p) /\ loc[p].op \in PruneOps /\ loc[p].keep >= 1
    /\ loc[p].deleted # {}
    /\ PreservedCandidates(p) # {}
    /\ Cardinality(Remaining(p))
         = loc[p].keep + Cardinality(PreservedCandidates(p))

DistinctMtimes(d) == \A n, m \in DOMAIN d : n # m => d[n].mtime # d[m].mtime

\* The k most recently modified directories of d.
Newest(d, k) ==
  {n \in DOMAIN d : Cardinality({m \in DOMAIN d : d[m].mtime > d[n].mtime}) < k}

\* C6: a pass of prune_old_versions with keep-count N >= 1 over directories
\* with distinct modification times that returns Ok leaves exactly the N
\* newest and the directory `current` targets.
C6_KeepsNewestAndCurrent ==
  \A p \in Procs :
    (PassOk(p) /\ loc[p].op = "prune" /\ loc[p].keep >= 1
       /\ DistinctMtimes(loc[p].snap))
      => DOMAIN dirs = Newest(loc[p].snap, loc[p].keep)
                         \cup ({loc[p].old} \cap DOMAIN loc[p].snap)

\* C6 witness: 1.0.0, 1.0.1, 1.0.2 created in that order, current -> 1.0.2,
\* keep = 2: 1.0.0 is gone, 1.0.1 and 1.0.2 remain.
C6_Witness ==
  \E p \in Procs :
    /\ PassOk(p) /\ loc[p].op = "prune" /\ loc[p].keep = 2
    /\ DOMAIN loc[p].snap = {VerName(0), VerName(1), VerName(2)}
    /\ \A i \in 0..2 : loc[p].snap[VerName(i)].mtime = i
    /\ current = VerName(2)
    /\ DOMAIN dirs = {VerName(1), VerName(2)}

\* C7: a pass with keep-count 0 changes nothing under the versions root.
C7_KeepZeroChangesNothing ==
  \A p \in Procs :
    (loc[p].op \in PruneOps /\ loc[p].keep = 0)
      => /\ dirs = loc[p].snap
         /\ current = loc[p].old
         /\ loc[p].deleted = {}

\* C7 witness: a finished pass of prune_old_versions with keep-count 0 over
\* three directories, none of them the target of `current`.
C7_Witness ==
  \E p \in Procs :
    /\ PassOk(p) /\ loc[p].op = "prune" /\ loc[p].keep = 0
    /\ Cardinality(DOMAIN dirs) >= 3
    /\ current = NoLink

\* C10: a failed removal does not stop the pass: when it ends, every
\* candidate beyond keep-count that is not preserved has been tried.
C10_FailureDoesNotStopPass ==
  \A p \in Procs :
    (pc[p] = "done" /\ loc[p].op \in PruneOps)
      => \A i \in 1..Len(loc[p].queue) :
           \/ loc[p].queue[i] \in loc[p].failed
           \/ loc[p].queue[i] \in loc[p].preserve

\* C8: in the install and update flows, from the moment the PreserveSet is
\* built, the directory just activated is the target of `current`, is in the
\* PreserveSet and exists, up to the end of the flow's prune pass.
C8_ActivatedIsPreserved ==
  \A p \in Procs :
    (loc[p].op = "install"
       /\ (pc[p] \in {"pres_list", "pres_loop"}
             \/ (pc[p] = "done" /\ loc[p].status = "ok")))
      => /\ current = loc[p].final
         /\ loc[p].final \in loc[p].preserve
         /\ IsDir(loc[p].final)

\* C8 witness: the prune pass of an install deleted a directory and the
\* version just activated is still there.
C8_Witness ==
  \E p \in Procs :
    /\ PassOk(p) /\ loc[p].op = "install"
    /\ loc[p].deleted # {}
    /\ IsDir(loc[p].final)

\* Two successive installs of distinct versions A = hist[1] then B = hist[2]
\* and a finished pass with keep-count 1 that began while A's directory
\* was there.
TwiceThenPruned(p) ==
  /\ PassOk(p)
  /\ loc[p].keep = 1
  /\ Len(hist) = 2 /\ hist[1] # hist[2]
  /\ hist[1] \in DOMAIN loc[p].snap

\* C9 as stated: `current` targets B; A's directory is there if A was in
\* the PreserveSet and is deleted otherwise.
C9_FirstDeletedUnlessPreserved ==
  \A p \in Procs :
    TwiceThenPruned(p)
      => /\ current = hist[2]
         /\ hist[1] \in loc[p].preserve => IsDir(hist[1])
         /\ hist[1] \notin loc[p].preserve => ~IsDir(hist[1])

\* C9 amended: A is deleted when it is not preserved and B's directory is
\* strictly newer than A's.
C9_FirstDeletedUnlessPreservedOrTied ==
  \A p \in Procs :
    TwiceThenPruned(p)
      => /\ current = hist[2]
         /\ hist[1] \in loc[p].preserve => IsDir(hist[1])
         /\ (hist[1] \notin loc[p].preserve
               /\ loc[p].snap[hist[1]].mtime < dirs[hist[2]].mtime)
              => ~IsDir(hist[1])

\* C9 witness: after installs of A then B, a pass with keep-count 1 that
\* was not given A deleted A's directory; B is current.
C9_Witness ==
  \E p \in Procs :
    /\ TwiceThenPruned(p)
    /\ hist[1] \in loc[p].deleted
    /\ current = hist[2]

\* C11: in the install and update flows, once install_from_tar has returned
\* Ok and the prune pass has begun, a removal that fails does not end the
\* command with an error: the pass goes on and the command returns Ok.
C11_PruneFailureNotFatal ==
  \A p \in Procs :
    (loc[p].op = "install" /\ loc[p].failed # {})
      => /\ pc[p] \in {"pres_loop", "done"}
         /\ pc[p] = "done" => loc[p].status = "ok"

\* C11 witness: an install whose prune pass failed to remove a directory,
\* which is still there, has returned Ok.
C11_Witness ==
  \E p \in Procs :
    /\ loc[p].op = "install" /\ pc[p] = "done" /\ loc[p].status = "ok"
    /\ \E n \in loc[p].failed : IsDir(n) /\ n \notin loc[p].preserve

\* A version directory is named by a version identifier (semantic version or
\* timestamp); staging directories and temporary links are not.
IsVersionName(n) == n[1] \in {"ver", "ts"}
VersionDirs == {n \in DOMAIN dirs : IsVersionName(n)}

\* C12: rollback on a root with fewer than two version directories fails
\* with NotEnoughVersions and leaves `current` as it was.
C12_RollbackNeedsTwoVersions ==
  \A p \in Procs :
    (loc[p].op = "rollback" /\ Cardinality(VersionDirs) < 2)
      => /\ pc[p] = "done"
         /\ loc[p].status = "err_notenough"
         /\ current = loc[p].old

\* C13: with at least two version directories (and no file-system failure)
\* rollback succeeds and `current` then targets a version directory, other
\* than its previous target, that none of the others is newer than.
C13_RollbackActivatesNewestOther ==
  \A p \in Procs :
    (loc[p].op = "rollback" /\ pc[p] = "done" /\ faults = 0
       /\ Cardinality(VersionDirs) >= 2)
      => /\ loc[p].status = "ok"
         /\ current \in VersionDirs \ {loc[p].old}
         /\ \A m \in VersionDirs \ {loc[p].old} :
              dirs[m].mtime <= dirs[current].mtime

IsThreePart(s) ==
  \E i, j \in 1..Len(s) :
    /\ 1 < i /\ i + 1 < j /\ j < Len(s)
    /\ s[i] = "." /\ s[j] = "."
    /\ \A k \in (1..Len(s)) \ {i, j} : s[k] \in AsciiDigits

\* The text holds a three-part numeric token somewhere.
HasToken(s) ==
  \E i, j \in 1..Len(s) : i <= j /\ IsThreePart(SubSeq(s, i, j))

\* C15: when the file name holds a three-part numeric token, the resolved
\* version is such a token of the name, the leftmost one taken to its full
\* length, whatever the descriptor holds.
C15_FileNameTokenWins ==
  (res.step = "done" /\ HasToken(res.name))
    => \E i, j \in 1..Len(res.name) :
         /\ i <= j
         /\ res.out = SubSeq(res.name, i, j)
         /\ IsThreePart(res.out)
         /\ \A i2 \in 1..(i - 1), j2 \in 1..Len(res.name) :
              ~(i2 <= j2 /\ IsThreePart(SubSeq(res.name, i2, j2)))
         /\ j = Len(res.name) \/ res.name[j + 1] \notin AsciiDigits

\* C15 witness: the name a1.1.1 beside a descriptor that reports 2.2.2 at
\* depth 4 resolves to 1.1.1.
C15_Witness ==
  /\ res.step = "done"
  /\ res.name = <<"a", "1", ".", "1", ".", "1">>
  /\ res.desc.depth = WalkMaxDepth
  /\ res.desc.wv = <<"2", ".", "2", ".", "2">>
  /\ res.out = <<"1", ".", "1", ".", "1">>

DescriptorInReach(desc) == desc.depth \in 1..WalkMaxDepth

\* C16: without a token in the file name and with a descriptor within 4
\* levels, the resolved version is the product-specific field when it is a
\* three-part numeric token, the generic `version` field when the
\* product-specific one is absent; a product-specific field that holds no
\* such token is not taken.
C16_DescriptorFieldResolves ==
  (res.step = "done" /\ ~HasToken(res.name) /\ DescriptorInReach(res.desc))
    => /\ IsThreePart(res.desc.wv) => res.out = res.desc.wv
       /\ (res.desc.wv = None /\ IsThreePart(res.desc.v))
            => res.out = res.desc.v
       /\ (res.desc.wv # None /\ ~HasToken(res.desc.wv))
            => res.out # res.desc.wv

\* A descriptor version field is usable when it is within reach and one of
\* the two fields holds a three-part numeric token.
UsableDescriptor(desc) ==
  DescriptorInReach(desc) /\ (HasToken(desc.wv) \/ HasToken(desc.v))

AllDigits(s) == \A k \in 1..Len(s) : s[k] \in AsciiDigits

\* C17: with no token in the file name and no usable descriptor field the
\* resolved version is 14 characters long, all of them ASCII digits.
C17_TimestampFallback ==
  (res.step = "done" /\ ~HasToken(res.name) /\ ~UsableDescriptor(res.desc))
    => Len(res.out) = 14 /\ AllDigits(res.out)

\* C18: every resolution ends with a version identifier that is not empty.
C18_ResolvedNeverEmpty ==
  res.step = "done" => res.out # None /\ res.out # << >>

\* C19: when install_from_tar has returned Ok(v), the directory <root>/v is
\* there, `current` targets exactly it and the shim is an executable file;
\* v is the file name's token when the name has one.
C19_InstalledAndActivated ==
  \A p \in Procs :
    (loc[p].op = "install" /\ pc[p] = "cli_desktop")
      => /\ IsDir(loc[p].final)
         /\ current = loc[p].final
         /\ shim = ShimScript(CurName)
         /\ loc[p].arch.f # 0 => loc[p].final = VerName(loc[p].arch.f)

\* C19 witness: an archive named for 1.0.2 has been installed over a root
\* where 1.0.1 was current: 1.0.2 is there and current.
C19_Witness ==
  \E p \in Procs :
    /\ loc[p].op = "install" /\ pc[p] = "cli_desktop"
    /\ loc[p].arch.f = 2
    /\ loc[p].prev = VerName(1)
    /\ current = VerName(2) /\ IsDir(VerName(2)) /\ IsDir(VerName(1))

\* C20: when install_from_tar fails at extraction or at activation,
\* `current` has the target it had before the call, every version directory
\* of before the call is there unchanged, and nothing but a staging
\* directory has been added.
C20_FailedInstallLeavesState ==
  \A p \in Procs :
    (loc[p].op = "install" /\ pc[p] = "done"
       /\ loc[p].status \in {"err_extract", "err_switch"})
      => /\ current = loc[p].prev
         /\ \A n \in DOMAIN loc[p].snap :
              IsVersionName(n) => (IsDir(n) /\ dirs[n] = loc[p].snap[n])
         /\ (DOMAIN dirs) \ (DOMAIN loc[p].snap) \subseteq StgNames

\* The elements of a sequence.
Range(q) == {q[i] : i \in 1..Len(q)}

\* C21: a staging directory is never seen as an installed version: the list
\* command does not show one, rollback does not pick one and does not count
\* one towards its minimum of two, and the prune pass has none among the
\* entries it ranks and removes.
C21_StagingNeverVisible ==
  /\ (\A p \in Procs : pc[p] = "idle") => CollectInstalled \cap StgNames = {}
  /\ \A p \in Procs :
       /\ loc[p].op = "rollback"
            => /\ loc[p].target \notin StgNames
               /\ Cardinality(VersionDirs) < 2
                    => loc[p].status = "err_notenough"
       /\ loc[p].op = "prune"
            => /\ Range(loc[p].queue) \cap StgNames = {}
               /\ loc[p].deleted \cap StgNames = {}

\* C22: a use of a version whose directory is not under the root has failed
\* with the not-found error, the message names the requested version and
\* every version directory of the root, and `current` is as it was.
C22_MissingVersionReported ==
  \A p \in Procs :
    (loc[p].op = "use" /\ IsVersionName(loc[p].arg) /\ ~IsDir(loc[p].arg))
      => /\ pc[p] = "done"
         /\ loc[p].status = "err_notfound"
         /\ loc[p].msg.version = loc[p].arg
         /\ VersionDirs \subseteq loc[p].msg.available
         /\ current = loc[p].old

\* C22 witness: with 1.0.1 current and 1.0.2 beside it, `use 1.0.0` has
\* failed; the message names 1.0.0 and lists 1.0.1 and 1.0.2.
C22_Witness ==
  \E p \in Procs :
    /\ loc[p].op = "use" /\ loc[p].arg = VerName(0)
    /\ loc[p].status = "err_notfound"
    /\ loc[p].msg = [version |-> VerName(0),
                     available |-> {VerName(1), VerName(2)}]
    /\ current = VerName(1)

\* C23: a run of the shim while `current` targets a directory resolves to
\* that directory, whatever switches came after the shim was written, and
\* launches the executable of its tree; a use or a rollback leaves the shim
\* file as it found it.
C23_ShimResolvesAtRunTime ==
  /\ (run.code # "none" /\ run.cur # NoLink)
       => /\ run.root = run.cur
          /\ (Exe \in run.tree \/ AltExe \in run.tree)
               => (run.code = "exec" /\ run.exe \in run.tree)
  /\ \A p \in Procs :
       loc[p].op \in {"use", "rollback"} => shim = loc[p].sh

\* C23 witness: the shim was written by the install of 1.0.2; after a use
\* of 1.0.1, with no install in between, a run of the shim has launched the
\* executable of 1.0.1.
C23_Witness ==
  /\ run.code = "exec" /\ run.root = VerName(1) /\ run.exe = Exe
  /\ current = VerName(1)
  /\ IsDir(VerName(2))
  /\ \E p \in Procs : loc[p].op = "use" /\ loc[p].status = "ok"
                       /\ loc[p].old = VerName(2)

\* A version can be extracted from a descriptor's content: a version field
\* that is a string, or, in a text that is no JSON value, a field holding a
\* three-part numeric token.
Extractable(desc) ==
  /\ desc.read = "text"
  /\ \/ desc.json /\ (JsonString(desc.wv) \/ JsonString(desc.v))
     \/ RegexFishVersion(desc) # None

\* C24: the detector ends with Ok(None), not with an error, when `current`
\* is absent, when no descriptor is found under its target, and when the
\* descriptor found yields no version field.
C24_NotInstalledIsNoError ==
  (res.step = "detected"
     /\ \/ res.link = "absent"
        \/ ~FindProductJson(res.desc)
        \/ FindProductJson(res.desc) /\ ~Extractable(res.desc))
    => res.out = [kind |-> "ok_none", v |-> None]

\* C25: whatever installs, uses (of any name, `current` included) and
\* rollbacks have run, `current` does not target itself and does not target
\* another symbolic link of the root.
C25_CurrentNeverTargetsALink ==
  current # CurName /\ current[1] # "tmp"

\* The steps of an install between the creation of its staging directory
\* and the promotion.
StagingPcs == {"inst_extract", "inst_resolve", "inst_rmfinal", "inst_rename"}

\* C26: two installs running at once never have the same staging path.
C26_DistinctStagingPaths ==
  \A p, q \in Procs :
    (p # q /\ pc[p] \in StagingPcs /\ pc[q] \in StagingPcs)
      => loc[p].stg # loc[q].stg

\* An install has ended, well or not.
Ended(p) ==
  loc[p].op = "install" /\ (pc[p] = "done" \/ pc[p] = "cli_desktop")

\* C27: when two installs at once have resolved the same version and both
\* have ended, both have succeeded and the version directory holds the whole
\* payload, and nothing else, of the one that promoted last.
C27_LastWriterWins ==
  \A p, q \in Procs :
    (p # q /\ Ended(p) /\ Ended(q) /\ loc[p].final = loc[q].final
       /\ loc[p].final # NoName)
      => /\ loc[p].status \in {"ok", "none"}
         /\ loc[p].last => Tree(loc[p].final) = Payload(loc[p].arch)

\* The target `current` had when the command started was a directory then.
OldWasThere(p) ==
  IF loc[p].op = "install" THEN loc[p].old \in DOMAIN loc[p].snap
  ELSE IsDir(loc[p].old)

\* C28: after an install, a use or a rollback was stopped between two of
\* its steps, `current`, when it targeted a directory before, is there and
\* targets a directory that exists, the one of before or the new one, and
\* no temporary link is left behind.
C28_InterruptKeepsCurrent ==
  \A p \in Procs :
    (pc[p] = "done" /\ loc[p].status = "killed")
      => /\ (loc[p].old # NoLink /\ OldWasThere(p))
              => /\ current # NoLink
                 /\ IsDir(current)
                 /\ current \in {loc[p].old, loc[p].target}
         /\ tmp[p] = NoLink

\* A staging directory that no running install is working in.
Orphaned(n) ==
  /\ n \in StgNames /\ IsDir(n)
  /\ \A p \in Procs : pc[p] \in {"idle", "done"} \/ loc[p].stg # n

\* C29: no step of an install, a prune pass, a use or a rollback removes or
\* rewrites an orphaned staging directory.
C29_OrphanedStagingStays ==
  [][\A n \in StgNames :
       Orphaned(n) => (n \in DOMAIN dirs' /\ dirs'[n] = dirs[n])]_vars

\* C30: when install_from_tar has returned Ok for a version whose directory
\* was there before the call, the directory holds the entries of the new
\* archive and nothing else.
C30_OverwriteReplacesWholesale ==
  \A p \in Procs :
    (loc[p].op = "install" /\ pc[p] = "cli_desktop"
       /\ loc[p].final \in DOMAIN loc[p].snap)
      => Tree(loc[p].final) = Payload(loc[p].arch)

\* C31 as stated: a run of the shim that finds no Windsurf/bin/windsurf
\* under the resolved root launches nothing and ends with status 127 after
\* the diagnostic.
C31_NoPrimaryExits127 ==
  (run.code # "none" /\ run.root # NoName /\ Exe \notin run.at)
    => run.code = "127" /\ run.exe = NoName /\ run.diag

\* C31 amended: such a run launches the flat executable <root>/windsurf
\* when the root holds it; when the root holds neither it launches nothing
\* and ends with status 127 after the diagnostic.
C31_NoExecutableExits127 ==
  (run.code # "none" /\ run.root # NoName /\ Exe \notin run.at)
    => IF AltExe \in run.at
         THEN run.code = "exec" /\ run.exe = AltExe /\ ~run.diag
         ELSE run.code = "127" /\ run.exe = NoName /\ run.diag

\* C31 witness: the shim ran while `current` pointed at 1.0.1 and the
\* directory was not there; it ended with 127 and the diagnostic.
C31_Witness ==
  /\ run.code = "127" /\ run.diag /\ run.exe = NoName
  /\ run.root = VerName(1) /\ run.at = {}

\* C32: a use of an existing version directory that has succeeded leaves
\* `current` targeting it; when `current` had that target already no switch
\* was made (so a second use changes nothing); the directories of the root
\* are those of before; and without a file-system failure the use succeeds.
C32_UseSwitchesAndIsIdempotent ==
  \A p \in Procs :
    (loc[p].op = "use" /\ pc[p] = "done" /\ IsVersionName(loc[p].arg)
       /\ loc[p].arg \in DOMAIN loc[p].snap)
      => /\ dirs = loc[p].snap
         /\ faults = 0 => loc[p].status = "ok"
         /\ loc[p].status = "ok"
              => /\ current = loc[p].arg
                 /\ loc[p].old = loc[p].arg
                      => loc[p].target = NoName

\* C32 witness: with 1.0.1 current, `use 1.0.2` has succeeded: `current`
\* targets 1.0.2 and both directories are there.
C32_Witness ==
  \E p \in Procs :
    /\ loc[p].op = "use" /\ pc[p] = "done" /\ loc[p].status = "ok"
    /\ loc[p].old = VerName(1) /\ loc[p].arg = VerName(2)
    /\ current = VerName(2)
    /\ IsDir(VerName(1)) /\ IsDir(VerName(2))

\* A field that is a quoted three-part numeric value.
QuotedThreePart(f) == f # None /\ f # <<"number">> /\ IsThreePart(f)

\* C33: on a descriptor that is found and read, the detector returns the
\* string field windsurfVersion of the parsed JSON, else its string field
\* version; when the parse gives neither, it returns what the textual
\* pattern finds, the first field whose quoted value is a three-part
\* numeric token, and Ok(None) when there is none.
C33_StructuredThenPattern ==
  (res.step = "detected" /\ res.link = "dir" /\ FindProductJson(res.desc)
     /\ res.desc.read = "text")
    => LET d == res.desc IN
       IF d.json /\ JsonString(d.wv)
         THEN res.out = [kind |-> "ok_some", v |-> d.wv]
       ELSE IF d.json /\ JsonString(d.v)
         THEN res.out = [kind |-> "ok_some", v |-> d.v]
       ELSE IF QuotedThreePart(d.wv)
         THEN res.out = [kind |-> "ok_some", v |-> d.wv]
       ELSE IF QuotedThreePart(d.v)
         THEN res.out = [kind |-> "ok_some", v |-> d.v]
       ELSE res.out = [kind |-> "ok_none", v |-> None]

\* C33 witness: a descriptor whose text is no JSON value, with
\* windsurfVersion "a" and version "2.1.2": the pattern yields 2.1.2.
C33_Witness ==
  /\ res.step = "detected" /\ res.link = "dir" /\ res.desc.depth = 1
  /\ res.desc.read = "text" /\ ~res.desc.json
  /\ res.desc.wv = <<"a">>
  /\ res.out = [kind |-> "ok_some", v |-> <<"2", ".", "1", ".", "2">>]

\* C34: after an uninstall that returned Ok, `current`, the shim and every
\* version directory are gone; without purge the desktop entry and the
\* icons directory are as they were, with purge they are gone as well.
C34_UninstallRemovesAll ==
  \A p \in Procs :
    (loc[p].op = "uninstall" /\ pc[p] = "done" /\ loc[p].status = "ok")
      => /\ current = NoLink
         /\ shim = NoShim
         /\ dirs = NoDirs
         /\ loc[p].purge => desk = NoDesk
         /\ ~loc[p].purge => desk = loc[p].dk

\* The update went on to the download and the install.
Proceeded(p) ==
  loc[p].op = "update"
    /\ (pc[p] # "done"
          \/ loc[p].status \notin {"uptodate", "dry", "err_detect", "err_remote",
                                   "err_remote_version"})

\* C35: an update whose detected local version parses and is at least the
\* remote latest version ends at once with the version directories, `current`
\* and the shim as they were; an update goes on to download and install only
\* when the local version is absent, does not parse, or is strictly lower.
C35_UpdateOnlyWhenOlder ==
  \A p \in Procs :
    loc[p].op = "update" =>
      /\ (SemVer(loc[p].local) # 0 /\ SemVer(loc[p].latest) # 0
            /\ SemVer(loc[p].local) >= SemVer(loc[p].latest)
            /\ loc[p].status # "err_detect")
           => /\ pc[p] = "done" /\ loc[p].status = "uptodate"
              /\ dirs = loc[p].snap /\ current = loc[p].old /\ shim = loc[p].sh
      /\ Proceeded(p)
           => \/ loc[p].local = NoName
              \/ SemVer(loc[p].local) = 0
              \/ SemVer(loc[p].local) < SemVer(loc[p].latest)

\* C35 witnesses: an update that found the local version equal to the latest
\* one and stopped, on an installation with a descriptor.
C35_Witness ==
  \E p \in Procs :
    /\ loc[p].op = "update" /\ pc[p] = "done" /\ loc[p].status = "uptodate"
    /\ loc[p].local = VerName(2) /\ loc[p].latest = VerName(2)
    /\ current # NoLink

\* C36: an install, a use or an update given --dry-run ends without a step
\* of the install, the switch or the prune pass: the directories of the
\* versions root (staging directories included), `current` and the shim are
\* as they were.
C36_DryRunChangesNothing ==
  \A p \in Procs :
    (loc[p].dry /\ loc[p].op \in {"install", "use", "update"})
      => /\ pc[p] = "done"
         /\ loc[p].stg = NoName /\ loc[p].deleted = {}
         /\ dirs = loc[p].snap
         /\ current = loc[p].old
         /\ shim = loc[p].sh

\* C36 witness: a dry run of update on an installation older than the
\* latest release, which a real run would replace.
C36_Witness ==
  \E p \in Procs :
    /\ loc[p].op = "update" /\ loc[p].dry /\ loc[p].status = "dry"
    /\ loc[p].local = VerName(1) /\ loc[p].latest = VerName(2)
    /\ current = VerName(1)

\* C37: when a prune pass of one process and a use or rollback of another
\* have both ended, `current` does not target a directory that the prune
\* pass deleted.
C37_PruneSparesActivated ==
  \A p \in Procs, q \in Procs :
    (loc[p].op = "prune" /\ pc[p] = "done"
       /\ loc[q].op \in {"use", "rollback"} /\ pc[q] = "done")
      => ~(current \in loc[p].deleted /\ ~IsDir(current))

\* The process is inside atomic_symlink_switch or has returned from it.
Switching(p) == loc[p].op = "use" /\ loc[p].target # NoName

\* C38: with two processes in atomic_symlink_switch on different targets,
\* a process that has made its temporary link finds it in place, with its
\* own target, until it renames it; each call returns success; and when
\* both have returned `current` resolves and targets one of the two
\* requested directories, no temporary link being left.
C38_ConcurrentSwitchesSucceed ==
  (\A p \in Procs : Switching(p)) /\ loc[1].target # loc[2].target
    => /\ \A p \in Procs :
            /\ pc[p] \in {"sw_remove", "sw_rename"} => tmp[p] = loc[p].target
            /\ pc[p] = "done" => loc[p].status = "ok"
       /\ (\A p \in Procs : pc[p] = "done")
            => /\ current \in {loc[1].target, loc[2].target}
               /\ LinkExists
               /\ \A p \in Procs : tmp[p] = NoLink

\* C38 witness: both calls have returned and `current` holds the target of
\* the process that made its temporary link first.
C38_Witness ==
  /\ \A p \in Procs : Switching(p) /\ pc[p] = "done" /\ loc[p].status = "ok"
  /\ loc[1].target = VerName(1) /\ loc[2].target = VerName(2)
  /\ loc[1].old = VerName(0)
  /\ current = VerName(1)

\* Path::join(root, t) names an entry directly under the root that is
\* neither the root itself, nor its parent, nor the entry `current`.
DirectChild(t) ==
  /\ t # None /\ t # << >> /\ t # <<".">> /\ t # <<".", ".">>
  /\ "/" \notin Range(t)
  /\ t # <<"c", "u", "r", "r", "e", "n", "t">>

\* C39: the identifier every resolution ends with names a direct child of
\* the versions root, distinct from the root and from the entry `current`.
C39_PromotedIsDirectChild ==
  res.step = "done" => DirectChild(res.out)

\* C40: a rollback that passed the two-directory check and read the link
\* does not panic: it found a candidate, which is not the link's target, and
\* went on to the switch.
C40_RollbackNeverPanics ==
  \A p \in Procs :
    (loc[p].op = "rollback"
       /\ loc[p].status \notin {"err_notenough", "err_readlink"})
      => /\ loc[p].status # "panic"
         /\ loc[p].target # NoName
         /\ loc[p].target # loc[p].old

\* C40 witness: a rollback that ended with Ok where `current` targeted a
\* path that is no directory of the root.
C40_Witness ==
  \E p \in Procs :
    /\ loc[p].op = "rollback" /\ pc[p] = "done" /\ loc[p].status = "ok"
    /\ loc[p].old # NoLink /\ loc[p].old \notin DOMAIN loc[p].snap
    /\ Cardinality(DOMAIN loc[p].snap) = 2
====
